---- MODULE Spec2Model ----
(***************************************************************************)
(* Model of the wasm-inference crate: the network encoder (serialize.rs),  *)
(* the sampling engine (sample.rs, bit_set.rs) and the query layer         *)
(* (lib.rs).                                                               *)
(*                                                                         *)
(* Two specifications share the variables:                                 *)
(*   Spec        the public operations serialize_network,                  *)
(*               compute_marginals and compute_sensitivity, each one       *)
(*               action from a node list to its result;                    *)
(*   SampleSpec  one sampling pass over an encoded network, one action per *)
(*               iteration of the loop of sample().                        *)
(* Unordered-collection iteration order (HashMap, HashSet) and the random  *)
(* draws are nondeterministic choices.                                     *)
(***************************************************************************)
EXTENDS Integers, Sequences, FiniteSets, TLC

VARIABLES nodes, fillers, op, target, result, samples_run,
          pc, topo_order, data, intervention, input, samples, node, hist

vars == <<nodes, fillers, op, target, result, samples_run,
          pc, topo_order, data, intervention, input, samples, node, hist>>

(***************************************************************************)
(* Bounds of the model and constants of the program.                       *)
(***************************************************************************)
\* explicit nodes of a node list of Spec
MaxNodes == 3
\* parent references (edges) of a node list of Spec
MaxEdges == 3
\* CPT entries of the varied node of a small network of SampleSpec
MaxEntries == 2
\* num_samples of a query
NumSamples == 1
\* length of the parent chain of the wide network of SampleSpec
SpineLen == 5

\* serialize.rs: nodes.len() > 255
MaxNodeCount == 255
\* bit_set.rs: BitSet([u8; 32])
BitSetBytes == 32
\* sample.rs take(4), serialize.rs div_ceil(4): parents per pattern byte
ParentsPerByte == 4

\* f32 bit patterns of 0.5, 1.0 and 0.0
F32 == [half |-> 1056964608, one |-> 1065353216, zero |-> 0]

(***************************************************************************)
(* Arithmetic on bytes.                                                    *)
(***************************************************************************)
Pow2(n) == 2 ^ n

Bit(x, i) == (x \div Pow2(i)) % 2

RECURSIVE BitFold(_, _, _, _)
BitFold(f, x, y, i) ==
    IF i = 8 THEN 0
    ELSE (IF f = "and" THEN Bit(x, i) * Bit(y, i)
          ELSE IF Bit(x, i) + Bit(y, i) > 0 THEN 1 ELSE 0) * Pow2(i)
         + BitFold(f, x, y, i + 1)

BitAnd(x, y) == BitFold("and", x, y, 0)
BitOr(x, y) == BitFold("or", x, y, 0)
\* u8 << n and u8 >> n
Shl(x, n) == (x * Pow2(n)) % 256
Shr(x, n) == x \div Pow2(n)

DivCeil(a, b) == (a + b - 1) \div b

Min(a, b) == IF a < b THEN a ELSE b

Range(s) == {s[i] : i \in DOMAIN s}

\* every sequence that lists the elements of S once
RECURSIVE Perms(_)
Perms(S) ==
    IF S = {} THEN {<<>>}
    ELSE UNION {{<<x>> \o p : p \in Perms(S \ {x})} : x \in S}

\* position of the first element of s equal to x (0 when there is none)
RECURSIVE PositionFrom(_, _, _)
PositionFrom(s, x, i) ==
    IF i > Len(s) THEN 0
    ELSE IF s[i] = x THEN i ELSE PositionFrom(s, x, i + 1)

Position(s, x) == PositionFrom(s, x, 1)

(***************************************************************************)
(* bit_set.rs                                                              *)
(***************************************************************************)
BitSetNew == [i \in 1..BitSetBytes |-> 0]

BitSetInsert(set, value) ==
    LET byte_index == value \div 8
        bit_index == value % 8
        mask == Shl(1, bit_index)
    IN [set EXCEPT ![byte_index + 1] = BitOr(@, mask)]

BitSetContains(set, value) ==
    LET byte_index == value \div 8
        bit_index == value % 8
        mask == Shl(1, bit_index)
    IN BitAnd(set[byte_index + 1], mask) # 0

(***************************************************************************)
(* serialize.rs                                                            *)
(* A Node is [id, cpt_entries]; a CptEntry is [parent_states,              *)
(* probability], parent_states a function from parent ids to "true",       *)
(* "false" or "none" (Option<bool>), probability the f32's bits.           *)
(***************************************************************************)
\* the Vec's order is the HashSet's; every use sorts it or reads it as a set
get_node_parents(n) ==
    UNION {DOMAIN n.cpt_entries[i].parent_states : i \in DOMAIN n.cpt_entries}

NodeIds(ns) == {ns[i].id : i \in DOMAIN ns}

\* the node a HashMap collected from the list keeps for an id: the last one
NodeById(ns, id) ==
    ns[CHOOSE i \in DOMAIN ns :
          /\ ns[i].id = id
          /\ \A j \in DOMAIN ns : ns[j].id = id => j <= i]

\* in_degree and graph as the first loop of topological_sort builds them
RECURSIVE InDegreeFrom(_, _, _)
InDegreeFrom(ns, i, deg) ==
    IF i > Len(ns) THEN deg
    ELSE LET id == ns[i].id
             ps == get_node_parents(ns[i])
             keys == DOMAIN deg \cup {id} \cup ps
             old(k) == IF k \in DOMAIN deg THEN deg[k] ELSE 0
         IN InDegreeFrom(ns, i + 1,
                [k \in keys |-> IF k = id THEN old(k) + Cardinality(ps) ELSE old(k)])

InDegree(ns) == InDegreeFrom(ns, 1, <<>>)

Children(ns, id) == {ns[i].id : i \in {j \in DOMAIN ns : id \in get_node_parents(ns[j])}}

\* the children of a popped node whose in-degree reaches zero
NewlyZero(ns, deg, id) == {c \in Children(ns, id) : deg[c] = 1}

DecrementChildren(ns, deg, id) ==
    [k \in DOMAIN deg |-> IF k \in Children(ns, id) THEN deg[k] - 1 ELSE deg[k]]

\* every result the while loop of topological_sort can end with
RECURSIVE KahnRuns(_, _, _, _)
KahnRuns(ns, deg, queue, res) ==
    IF queue = <<>> THEN {res}
    ELSE LET node_id == Head(queue)
         IN UNION {KahnRuns(ns, DecrementChildren(ns, deg, node_id),
                            Tail(queue) \o pushed, Append(res, node_id))
                   : pushed \in Perms(NewlyZero(ns, deg, node_id))}

\* the ids in the map's order, not sorted
KahnResults_unsorted(ns) == Perms(NodeIds(ns))

KahnResults(ns) ==
    LET deg == InDegree(ns)
    IN UNION {KahnRuns(ns, deg, queue, <<>>)
              : queue \in Perms({k \in DOMAIN deg : deg[k] = 0})}

\* topological_sort without the comparison of the lengths
topological_sort_unchecked(ns, n_fill, res) == [ok |-> TRUE, order |-> res]

\* n_fill isolated nodes of the list that the model does not list are popped
\* and pushed like the others: they count in both lengths
topological_sort(ns, n_fill, res) ==
    LET result_len == Len(res) + n_fill
        nodes_len == Len(ns) + n_fill
    IN IF result_len < nodes_len THEN [ok |-> FALSE, err |-> "CycleDetected"]
       ELSE IF result_len > nodes_len THEN [ok |-> FALSE, err |-> "UndefinedParents"]
       ELSE [ok |-> TRUE, order |-> res]

F32ToLeBytes(bits) ==
    <<bits % 256, (bits \div 256) % 256, (bits \div 65536) % 256,
      (bits \div 16777216) % 256>>

\* the pattern byte of the parents byte_idx*4 .. byte_idx*4+3 of parent_ids
RECURSIVE PatternByteFrom(_, _, _, _)
PatternByteFrom(entry, parent_ids, byte_idx, local_idx) ==
    IF local_idx >= Len(parent_ids) \/ local_idx \div ParentsPerByte # byte_idx THEN 0
    ELSE LET bit_offset == local_idx % ParentsPerByte
             parent_id == parent_ids[local_idx + 1]
             state == IF parent_id \in DOMAIN entry.parent_states
                      THEN entry.parent_states[parent_id] ELSE "none"
             bits == IF state = "true"
                     THEN BitOr(Shl(1, bit_offset + 4), Shl(1, bit_offset))
                     ELSE IF state = "false" THEN Shl(1, bit_offset + 4)
                     ELSE 0
         IN BitOr(bits, PatternByteFrom(entry, parent_ids, byte_idx, local_idx + 1))

\* pattern bytes rounded down
NumPatternBytes_floor(num_parents) == num_parents \div ParentsPerByte

NumPatternBytes(num_parents) == DivCeil(num_parents, ParentsPerByte)

serialize_cpt_entry(entry, parent_ids) ==
    [b \in 1..NumPatternBytes(Len(parent_ids)) |->
        PatternByteFrom(entry, parent_ids, b - 1, (b - 1) * ParentsPerByte)]
    \o F32ToLeBytes(entry.probability)

\* parent ids sorted by topological index (the indices are distinct)
RECURSIVE SortByIndex(_, _)
SortByIndex(ids, order) ==
    IF ids = {} THEN <<>>
    ELSE LET first == CHOOSE x \in ids :
                          \A y \in ids : Position(order, x) <= Position(order, y)
         IN <<first>> \o SortByIndex(ids \ {first}, order)

RECURSIVE ConcatEntries(_, _, _)
ConcatEntries(entries, parent_ids, i) ==
    IF i > Len(entries) THEN <<>>
    ELSE serialize_cpt_entry(entries[i], parent_ids)
         \o ConcatEntries(entries, parent_ids, i + 1)

\* the bytes serialize_node appends; index = position in topo_order - 1
serialize_node(n, order) ==
    LET sorted_parent_ids == SortByIndex(get_node_parents(n), order)
        parent_indices == [i \in DOMAIN sorted_parent_ids |->
                              Position(order, sorted_parent_ids[i]) - 1]
    IN <<Len(parent_indices)>> \o parent_indices \o <<Len(n.cpt_entries)>>
       \o ConcatEntries(n.cpt_entries, sorted_parent_ids, 1)

RECURSIVE SerializeFrom(_, _, _)
SerializeFrom(ns, order, i) ==
    IF i > Len(order) THEN <<>>
    ELSE serialize_node(NodeById(ns, order[i]), order) \o SerializeFrom(ns, order, i + 1)

\* the checks with the parent check moved before the duplicate check
Validate_parents_first(ns, n_fill) ==
    IF Len(ns) + n_fill > MaxNodeCount THEN "TooManyNodes"
    ELSE IF \E i \in DOMAIN ns : \E p \in get_node_parents(ns[i]) : p \notin NodeIds(ns)
         THEN "UnknownParent"
    ELSE IF Cardinality(NodeIds(ns)) + n_fill # Len(ns) + n_fill THEN "DuplicateId"
    ELSE ""

\* the checks of serialize_network before the sort: "" when all pass
Validate(ns, n_fill) ==
    IF Len(ns) + n_fill > MaxNodeCount THEN "TooManyNodes"
    ELSE IF Cardinality(NodeIds(ns)) + n_fill # Len(ns) + n_fill THEN "DuplicateId"
    ELSE IF \E i \in DOMAIN ns : \E p \in get_node_parents(ns[i]) : p \notin NodeIds(ns)
         THEN "UnknownParent"
    ELSE ""

\* u8::try_from of the parent and entry counts in serialize_node
CountsFit(ns) ==
    \A i \in DOMAIN ns : /\ Cardinality(get_node_parents(ns[i])) <= 255
                         /\ Len(ns[i].cpt_entries) <= 255

\* every outcome of serialize_network on ns followed by n_fill isolated nodes
\* (fresh ids, no parents). With n_fill > 0 a successful outcome keeps the
\* order of the listed nodes only and no buffer.
serialize_network(ns, n_fill) ==
    IF Validate(ns, n_fill) # "" THEN {[ok |-> FALSE, err |-> Validate(ns, n_fill)]}
    ELSE {LET sorted == topological_sort(ns, n_fill, res)
          IN IF ~sorted.ok THEN sorted
             ELSE IF ~CountsFit(ns) THEN [ok |-> FALSE, err |-> "IndexOverflow"]
             ELSE [ok |-> TRUE, topo_order |-> sorted.order,
                   data |-> IF n_fill = 0 THEN SerializeFrom(ns, sorted.order, 1)
                            ELSE <<>>]
          : res \in KahnResults(ns)}

(***************************************************************************)
(* sample.rs                                                               *)
(***************************************************************************)
NoIntervention == [some |-> FALSE, on_node |-> 0, value |-> FALSE]

Drop(s, n) == SubSeq(s, n + 1, Len(s))

LeF32(bytes) == bytes[1] + 256 * bytes[2] + 65536 * bytes[3] + 16777216 * bytes[4]

\* the state shard of the parents 4*(shard-1)+1 .. 4*shard, as the fold builds it
RECURSIVE StateShardFrom(_, _, _)
StateShardFrom(parent_states, shard, i) ==
    LET at == ParentsPerByte * (shard - 1) + i + 1
    IN IF i >= ParentsPerByte \/ at > Len(parent_states) THEN 0
       ELSE BitOr(IF parent_states[at] THEN Shl(1, i) ELSE 0,
                  StateShardFrom(parent_states, shard, i + 1))

RECURSIVE MatchesFrom(_, _, _)
MatchesFrom(parent_pattern, parent_states, shard) ==
    IF shard > Len(parent_pattern) THEN TRUE
    ELSE LET pattern_shard == parent_pattern[shard]
             state_shard == StateShardFrom(parent_states, shard, 0)
             mask == Shr(pattern_shard, 4)
         IN /\ BitAnd(state_shard, mask) = BitAnd(pattern_shard, mask)
            /\ MatchesFrom(parent_pattern, parent_states, shard + 1)

\* only the first pattern byte is compared
matches_first_byte(parent_pattern, parent_states) ==
    parent_pattern = <<>> \/ MatchesFrom(<<parent_pattern[1]>>, parent_states, 1)

matches(parent_pattern, parent_states) == MatchesFrom(parent_pattern, parent_states, 1)

\* cpt_entry(num_parents): take(div_ceil(num_parents, 4)) then le_f32
cpt_entry(inp, num_parents) ==
    LET parent_pattern_bytes == DivCeil(num_parents, ParentsPerByte)
    IN IF Len(inp) < parent_pattern_bytes + 4 THEN [ok |-> FALSE]
       ELSE [ok |-> TRUE,
             parent_pattern |-> SubSeq(inp, 1, parent_pattern_bytes),
             probability |-> LeF32(SubSeq(inp, parent_pattern_bytes + 1,
                                          parent_pattern_bytes + 4)),
             rest |-> Drop(inp, parent_pattern_bytes + 4)]

\* the loop without the probability.is_none() test: the last match wins
RECURSIVE EntriesFrom_last_match(_, _, _, _, _, _)
EntriesFrom_last_match(inp, left, num_parents, parent_states, probability, entries) ==
    IF left = 0
    THEN [ok |-> TRUE, probability |-> probability, rest |-> inp, entries |-> entries]
    ELSE LET entry == cpt_entry(inp, num_parents)
         IN IF ~entry.ok THEN [ok |-> FALSE]
            ELSE EntriesFrom_last_match(entry.rest, left - 1, num_parents, parent_states,
                     IF matches(entry.parent_pattern, parent_states)
                     THEN entry.probability ELSE probability,
                     Append(entries, [parent_pattern |-> entry.parent_pattern,
                                      probability |-> entry.probability]))

\* the loop of process_node over the CPT entries; probability -1 is None
RECURSIVE EntriesFrom(_, _, _, _, _, _)
EntriesFrom(inp, left, num_parents, parent_states, probability, entries) ==
    IF left = 0
    THEN [ok |-> TRUE, probability |-> probability, rest |-> inp, entries |-> entries]
    ELSE LET entry == cpt_entry(inp, num_parents)
         IN IF ~entry.ok THEN [ok |-> FALSE]
            ELSE EntriesFrom(entry.rest, left - 1, num_parents, parent_states,
                     IF probability = -1 /\ matches(entry.parent_pattern, parent_states)
                     THEN entry.probability ELSE probability,
                     Append(entries, [parent_pattern |-> entry.parent_pattern,
                                      probability |-> entry.probability]))

process_node(set, inp) ==
    IF inp = <<>> \/ Len(inp) < 1 + inp[1] THEN [ok |-> FALSE]
    ELSE LET parents == SubSeq(inp, 2, 1 + inp[1])
             parent_states == [i \in DOMAIN parents |-> BitSetContains(set, parents[i])]
             after == Drop(inp, 1 + inp[1])
         IN IF after = <<>> THEN [ok |-> FALSE]
            ELSE LET num_cpt_entries == after[1]
                     r == EntriesFrom(Tail(after), num_cpt_entries, Len(parents),
                                      parent_states, -1, <<>>)
                 IN IF ~r.ok THEN [ok |-> FALSE]
                    ELSE [ok |-> TRUE, probability |-> r.probability, rest |-> r.rest,
                          parents |-> parents, parent_states |-> parent_states,
                          entries |-> r.entries]

\* the outcomes of rng.random_bool(p) for the f32 with these bits
RandomBool(bits) ==
    IF bits = F32.zero THEN {FALSE} ELSE IF bits = F32.one THEN {TRUE} ELSE BOOLEAN

\* sample(): the presence set before the loop
SampleStart(iv) ==
    IF iv.some /\ iv.value THEN BitSetInsert(BitSetNew, iv.on_node) ELSE BitSetNew

\* the intervention target is sampled like any other node
NodeSkipped_never(iv, k) == FALSE

NodeSkipped(iv, k) == iv.some /\ iv.on_node = k

\* one iteration of the loop of sample() for node k: every outcome, with what
\* process_node parsed
SampleNode(set, inp, k, iv) ==
    LET p == process_node(set, inp)
    IN IF ~p.ok THEN {[ok |-> FALSE, err |-> "ParseError", parsed |-> p]}
       ELSE IF p.probability = -1
       THEN {[ok |-> FALSE, err |-> "IncompleteCpt", parsed |-> p]}
       ELSE IF NodeSkipped(iv, k)
       THEN {[ok |-> TRUE, samples |-> set, input |-> p.rest, inserted |-> FALSE,
              parsed |-> p]}
       ELSE {[ok |-> TRUE,
              samples |-> IF draw THEN BitSetInsert(set, k) ELSE set,
              input |-> p.rest, inserted |-> draw, parsed |-> p]
             : draw \in RandomBool(p.probability)}

\* every outcome of sample(data, num_nodes, iv, rng)
RECURSIVE SampleFrom(_, _, _, _, _)
SampleFrom(set, inp, k, num_nodes, iv) ==
    IF k = num_nodes THEN {[ok |-> TRUE, samples |-> set]}
    ELSE UNION {IF ~o.ok THEN {[ok |-> FALSE, err |-> o.err]}
                ELSE SampleFrom(o.samples, o.input, k + 1, num_nodes, iv)
                : o \in SampleNode(set, inp, k, iv)}

sample(bytes, num_nodes, iv) == SampleFrom(SampleStart(iv), bytes, 0, num_nodes, iv)

(***************************************************************************)
(* lib.rs                                                                  *)
(***************************************************************************)
\* sample_result.contains(idx) as 0 or 1
Present(set, idx) == IF BitSetContains(set, idx) THEN 1 ELSE 0

\* the sampling loop of compute_marginals: every outcome, with the number of
\* calls of sample() made
RECURSIVE MarginalLoop(_, _, _, _, _)
MarginalLoop(passes, num_nodes, left, counts, runs) ==
    IF left = 0 THEN {[ok |-> TRUE, counts |-> counts, runs |-> runs]}
    ELSE UNION {IF ~o.ok THEN {[ok |-> FALSE, err |-> o.err, runs |-> runs + 1]}
                ELSE MarginalLoop(passes, num_nodes, left - 1,
                         [i \in DOMAIN counts |-> counts[i] + Present(o.samples, i - 1)],
                         runs + 1)
                : o \in passes}

\* every outcome of compute_marginals; a probability count / num_samples is
\* kept as the pair [num, den]
compute_marginals(ns, n_fill, num_samples) ==
    UNION {IF ~ser.ok THEN {[ok |-> FALSE, err |-> ser.err, runs |-> 0]}
           ELSE LET num_nodes == Len(ser.topo_order)
                    passes == sample(ser.data, num_nodes, NoIntervention)
                IN {IF ~r.ok THEN r
                    ELSE [ok |-> TRUE, runs |-> r.runs,
                          probabilities |->
                             [id \in Range(ser.topo_order) |->
                                [num |-> r.counts[Position(ser.topo_order, id)],
                                 den |-> num_samples]]]
                    : r \in MarginalLoop(passes, num_nodes, num_samples,
                                         [i \in 1..num_nodes |-> 0], 0)}
           : ser \in serialize_network(ns, n_fill)}

\* parent_map of get_ancestors: a later node of the same id replaces an earlier
ParentMap(ns) == [id \in NodeIds(ns) |-> get_node_parents(NodeById(ns, id))]

\* the BFS of get_ancestors: every ancestor set it can end with
RECURSIVE BfsRuns(_, _, _, _)
BfsRuns(parent_map, queue, visited, ancestors) ==
    IF queue = <<>> THEN {ancestors}
    ELSE LET current_id == Head(queue)
             parents == IF current_id \in DOMAIN parent_map
                        THEN parent_map[current_id] ELSE {}
             fresh == parents \ visited
         IN UNION {BfsRuns(parent_map, Tail(queue) \o pushed,
                           visited \cup fresh, ancestors \cup fresh)
                   : pushed \in Perms(fresh)}

get_ancestors(ns, target_node_id) ==
    BfsRuns(ParentMap(ns), <<target_node_id>>, {target_node_id}, {})

RECURSIVE FilterNodes(_, _, _, _)
FilterNodes(ns, ancestor_set, target_node_id, i) ==
    IF i > Len(ns) THEN <<>>
    ELSE (IF ns[i].id \in ancestor_set \/ ns[i].id = target_node_id
          THEN <<ns[i]>> ELSE <<>>)
         \o FilterNodes(ns, ancestor_set, target_node_id, i + 1)

\* no filter: the whole list is serialized
NodesToSerialize_all(ns, ancestor_set, target_node_id) == ns

NodesToSerialize(ns, ancestor_set, target_node_id) ==
    FilterNodes(ns, ancestor_set, target_node_id, 1)

\* compute_intervention_prob: num_samples passes, counting the target
RECURSIVE InterventionProb(_, _, _, _, _)
InterventionProb(passes, target_idx, left, count, runs) ==
    IF left = 0 THEN {[ok |-> TRUE, count |-> count, runs |-> runs]}
    ELSE UNION {IF ~o.ok THEN {[ok |-> FALSE, err |-> o.err, runs |-> runs + 1]}
                ELSE InterventionProb(passes, target_idx, left - 1,
                         count + Present(o.samples, target_idx), runs + 1)
                : o \in passes}

Put(f, k, v) == [x \in DOMAIN f \cup {k} |-> IF x = k THEN v ELSE f[x]]

\* the two batches of compute_sensitivity for one ancestor: every outcome,
\* [ok, t, f, runs] with the counts of the two batches, or the first error
Batches(ser, target_node_id, ancestor_id, num_samples) ==
    LET num_nodes == Len(ser.topo_order)
        target_idx == Position(ser.topo_order, target_node_id) - 1
        ancestor_idx == Position(ser.topo_order, ancestor_id) - 1
        iv(v) == [some |-> TRUE, on_node |-> ancestor_idx, value |-> v]
        batch(v) == InterventionProb(sample(ser.data, num_nodes, iv(v)),
                                     target_idx, num_samples, 0, 0)
    IN {IF ~t.ok THEN t
        ELSE IF ~f.ok THEN [ok |-> FALSE, err |-> f.err, runs |-> t.runs + f.runs]
        ELSE [ok |-> TRUE, t |-> t.count, f |-> f.count, runs |-> t.runs + f.runs]
        : t \in batch(TRUE), f \in batch(FALSE)}

\* the loop without the skip of the target: the target gets a key too
RECURSIVE SensitivityLoop_target_too(_, _, _, _, _)
SensitivityLoop_target_too(ser, to_serialize, target_node_id, num_samples, i) ==
    IF i > Len(to_serialize) THEN {[ok |-> TRUE, sensitivities |-> <<>>, runs |-> 0]}
    ELSE {IF ~b.ok THEN b
          ELSE IF ~later.ok
          THEN [ok |-> FALSE, err |-> later.err, runs |-> b.runs + later.runs]
          ELSE [ok |-> TRUE,
                sensitivities |-> Put(later.sensitivities, to_serialize[i].id,
                                      [t |-> b.t, f |-> b.f, den |-> num_samples]),
                runs |-> b.runs + later.runs]
          : b \in Batches(ser, target_node_id, to_serialize[i].id, num_samples),
            later \in SensitivityLoop_target_too(ser, to_serialize, target_node_id,
                                                 num_samples, i + 1)}

\* the loop of compute_sensitivity over nodes_to_serialize from position i on:
\* every outcome, with the sensitivities inserted and the number of calls of
\* sample() made; a sensitivity prob_true - prob_false is kept as [t, f, den]
RECURSIVE SensitivityLoop(_, _, _, _, _)
SensitivityLoop(ser, to_serialize, target_node_id, num_samples, i) ==
    IF i > Len(to_serialize) THEN {[ok |-> TRUE, sensitivities |-> <<>>, runs |-> 0]}
    ELSE IF to_serialize[i].id = target_node_id
    THEN SensitivityLoop(ser, to_serialize, target_node_id, num_samples, i + 1)
    ELSE {IF ~b.ok THEN b
          ELSE IF ~later.ok
          THEN [ok |-> FALSE, err |-> later.err, runs |-> b.runs + later.runs]
          ELSE [ok |-> TRUE,
                sensitivities |-> Put(later.sensitivities, to_serialize[i].id,
                                      [t |-> b.t, f |-> b.f, den |-> num_samples]),
                runs |-> b.runs + later.runs]
          : b \in Batches(ser, target_node_id, to_serialize[i].id, num_samples),
            later \in SensitivityLoop(ser, to_serialize, target_node_id,
                                      num_samples, i + 1)}

\* every outcome of compute_sensitivity; serialized is the node list handed to
\* serialize_network (<<>> when the call is not reached) and encoded the order
\* it returned
compute_sensitivity(ns, n_fill, target_node_id, num_samples) ==
    IF target_node_id \notin NodeIds(ns)
    THEN {[ok |-> FALSE, err |-> "NodeNotFound", runs |-> 0, serialized |-> <<>>,
           encoded |-> <<>>]}
    ELSE UNION {
        IF ancestor_set = {}
        THEN {[ok |-> TRUE, sensitivities |-> <<>>, runs |-> 0, serialized |-> <<>>,
               encoded |-> <<>>]}
        ELSE LET to_serialize == NodesToSerialize(ns, ancestor_set, target_node_id)
             IN UNION {
                 IF ~ser.ok
                 THEN {[ok |-> FALSE, err |-> ser.err, runs |-> 0,
                        serialized |-> to_serialize, encoded |-> <<>>]}
                 ELSE {IF ~r.ok
                       THEN [ok |-> FALSE, err |-> r.err, runs |-> r.runs,
                             serialized |-> to_serialize, encoded |-> ser.topo_order]
                       ELSE [ok |-> TRUE, sensitivities |-> r.sensitivities,
                             runs |-> r.runs, serialized |-> to_serialize,
                             encoded |-> ser.topo_order]
                       : r \in SensitivityLoop(ser, to_serialize, target_node_id,
                                               num_samples, 1)}
                 : ser \in serialize_network(to_serialize, 0)}
        : ancestor_set \in get_ancestors(ns, target_node_id)}

(***************************************************************************)
(* The node lists of Spec.                                                 *)
(***************************************************************************)
IdPool == <<"a", "b", "c", "d", "e", "f", "g", "h">>
UnknownId == "z"

ListIds(n) == {IdPool[i] : i \in 1..n}

\* the subsets of S of at most k elements
RECURSIVE SubsetsUpTo(_, _)
SubsetsUpTo(S, k) ==
    IF k = 0 \/ S = {} THEN {{}}
    ELSE LET x == CHOOSE y \in S : TRUE
         IN SubsetsUpTo(S \ {x}, k)
            \cup {T \cup {x} : T \in SubsetsUpTo(S \ {x}, k - 1)}

\* the parent references of a list of n nodes: <<parent id, child position>>,
\* the parent any id of the list (the child's own included), or an unknown id
\* for the first node
Edges(n) == (ListIds(n) \X (1..n)) \cup {<<UnknownId, i>> : i \in {1} \cap (1..n)}

\* a CPT that mentions exactly the parents of S: "split" lists one entry per
\* parent and a default entry, "joint" one entry that constrains them all
Cpt(S, style) ==
    IF style = "joint"
    THEN <<[parent_states |-> [p \in S |-> "true"], probability |-> F32.half]>>
    ELSE [i \in 1..Cardinality(S) |->
             [parent_states |-> [p \in {SortByIndex(S, IdPool \o <<UnknownId>>)[i]} |-> "true"],
              probability |-> F32.half]]
         \o <<[parent_states |-> <<>>, probability |-> F32.half]>>

\* lists of n nodes with the pool's first n ids in order (the last node
\* possibly repeating the first id) and at most MaxEdges parent references;
\* the CPTs at even positions are "joint", the others "split"
NodeListsOf(n) ==
    {[i \in 1..n |-> [id |-> IF i = n /\ dup THEN IdPool[1] ELSE IdPool[i],
                      cpt_entries |-> Cpt({e[1] : e \in {x \in E : x[2] = i}},
                                          IF i % 2 = 0 THEN "joint" ELSE "split")]]
     : E \in SubsetsUpTo(Edges(n), MaxEdges), dup \in {d \in BOOLEAN : d => n > 1}}

NodeLists == UNION {NodeListsOf(n) : n \in 0..MaxNodes}

\* lists of 255 and of 256 nodes: fewer than MaxNodes listed nodes and this
\* many isolated ones
FillerChoices(ns) ==
    IF Len(ns) < MaxNodes THEN {0, MaxNodeCount - Len(ns), MaxNodeCount + 1 - Len(ns)}
    ELSE {0}

Idle == /\ pc = "idle" /\ topo_order = <<>> /\ data = <<>>
        /\ intervention = NoIntervention /\ input = <<>> /\ samples = BitSetNew
        /\ node = 0 /\ hist = <<>>

Init ==
    /\ nodes \in NodeLists
    /\ fillers \in FillerChoices(nodes)
    /\ op = "none"
    /\ target = ""
    /\ result = [ok |-> TRUE]
    /\ samples_run = 0
    /\ Idle

Unsampled == UNCHANGED <<pc, topo_order, data, intervention, input, samples, node, hist>>

\* serialize::serialize_network(&nodes)
SerializeNetwork ==
    /\ op = "none"
    /\ op' = "serialize_network"
    /\ result' \in serialize_network(nodes, fillers)
    /\ UNCHANGED <<nodes, fillers, target, samples_run>>
    /\ Unsampled

\* compute_marginals(nodes, NumSamples); a list with unlisted nodes only when
\* serialize_network rejects it
ComputeMarginals ==
    /\ op = "none"
    /\ fillers = 0 \/ Validate(nodes, fillers) # ""
    /\ op' = "compute_marginals"
    /\ \E r \in compute_marginals(nodes, fillers, NumSamples) :
          /\ result' = r
          /\ samples_run' = r.runs
    /\ UNCHANGED <<nodes, fillers, target>>
    /\ Unsampled

\* compute_sensitivity(nodes, t, NumSamples)
ComputeSensitivity ==
    /\ op = "none"
    /\ op' = "compute_sensitivity"
    /\ \E t \in ListIds(MaxNodes) \cup {UnknownId} :
          /\ target' = t
          /\ \E r \in compute_sensitivity(nodes, fillers, t, NumSamples) :
                /\ result' = r
                /\ samples_run' = r.runs
    /\ UNCHANGED <<nodes, fillers>>
    /\ Unsampled

Next == SerializeNetwork \/ ComputeMarginals \/ ComputeSensitivity

Spec == Init /\ [][Next]_vars

(***************************************************************************)
(* SampleSpec: one call of sample() on the buffer serialize_network        *)
(* returned, one action per iteration of its loop. hist records what the   *)
(* pass read and wrote: last is the process_node of the latest iteration,  *)
(* probs the probability each processed node got, reads the parent bits    *)
(* each node's match read, writes the calls of insert per node.            *)
(***************************************************************************)
States == {"true", "false", "none"}

PartialMaps(U) == UNION {[D -> States] : D \in SUBSET U}

\* the probability of the entry declared at position j: 0.5, 1.0, 0.0, 1.0, ...
ProbAt(j) == IF j = 1 THEN F32.half ELSE IF j % 2 = 0 THEN F32.one ELSE F32.zero

\* the maps an entry after the first is drawn from
LaterMaps(a, b) ==
    {<<>>, [p \in {a} |-> "true"], [p \in {b} |-> "none"],
     [p \in {a, b} |-> IF p = a THEN "true" ELSE "false"]}

\* the CPTs of at most MaxEntries entries over the parents a and b: the first
\* entry any map, the later ones from LaterMaps
Cpts(a, b) ==
    UNION {{[j \in 1..n |-> [parent_states |-> maps[j], probability |-> ProbAt(j)]]
            : maps \in {m \in [1..n -> PartialMaps({a, b})] :
                           \A j \in 2..n : m[j] \in LaterMaps(a, b)}}
           : n \in 0..MaxEntries}

Root(id) == [id |-> id,
             cpt_entries |-> <<[parent_states |-> <<>>, probability |-> F32.half]>>]

\* two roots and a third node with any CPT over them, listed first
SmallNetworks ==
    {<<[id |-> IdPool[3], cpt_entries |-> cpt], Root(IdPool[1]), Root(IdPool[2])>>
     : cpt \in Cpts(IdPool[1], IdPool[2])}

\* a chain of SpineLen nodes, each with its predecessor as a don't-care parent
SpineNode(i) ==
    IF i = 1 THEN Root(IdPool[1])
    ELSE [id |-> IdPool[i],
          cpt_entries |-> <<[parent_states |-> [p \in {IdPool[i - 1]} |-> "none"],
                             probability |-> F32.half]>>]

\* the patterns over the parents D that constrain every parent, or at most one
WidePatterns(D) ==
    {m \in [D -> States] :
        \/ \A p \in D : m[p] # "none"
        \/ \A p, q \in D : m[p] # "none" /\ m[q] # "none" => p = q}

\* the chain and a node with all of the chain, or all but its first node, as
\* parents: a first entry with a pattern of WidePatterns, then a default entry
WideNetworks ==
    {[i \in 1..SpineLen |-> SpineNode(i)]
     \o <<[id |-> IdPool[SpineLen + 1],
           cpt_entries |-> <<[parent_states |-> m, probability |-> ProbAt(1)],
                             [parent_states |-> <<>>, probability |-> ProbAt(2)]>>]>>
     : m \in WidePatterns(ListIds(SpineLen))
             \cup WidePatterns(ListIds(SpineLen) \ {IdPool[1]})}

IsWide(ns) == Len(ns) = SpineLen + 1

\* the interventions the passes of the model take
Interventions(ns) ==
    {NoIntervention}
    \cup {[some |-> TRUE, on_node |-> x, value |-> v]
          : x \in IF IsWide(ns) THEN {1} ELSE 0..(Len(ns) - 1),
            v \in IF IsWide(ns) THEN {TRUE} ELSE BOOLEAN}

SampleInit ==
    /\ nodes \in SmallNetworks \cup WideNetworks
    /\ fillers = 0
    /\ op = "sample"
    /\ target = ""
    /\ result = [ok |-> TRUE]
    /\ samples_run = 0
    /\ pc = "start" /\ topo_order = <<>> /\ data = <<>>
    /\ intervention = NoIntervention /\ input = <<>> /\ samples = BitSetNew
    /\ node = 0 /\ hist = <<>>

\* serialize::serialize_network(&nodes)
Encode ==
    /\ pc = "start"
    /\ \E ser \in serialize_network(nodes, fillers) :
          IF ser.ok
          THEN /\ topo_order' = ser.topo_order
               /\ data' = ser.data
               /\ pc' = "encoded"
               /\ UNCHANGED result
          ELSE /\ result' = ser
               /\ pc' = "rejected"
               /\ UNCHANGED <<topo_order, data>>
    /\ UNCHANGED <<nodes, fillers, op, target, samples_run, intervention, input,
                   samples, node, hist>>

\* sample(&data, num_nodes, intervention, rng) up to its loop
StartPass ==
    /\ pc = "encoded"
    /\ \E iv \in Interventions(nodes) :
          /\ intervention' = iv
          /\ samples' = SampleStart(iv)
          /\ hist' = [last |-> [k |-> -1], probs |-> <<>>, reads |-> {},
                      writes |-> [i \in 1..Len(topo_order) |->
                                     IF iv.some /\ iv.value /\ iv.on_node = i - 1
                                     THEN 1 ELSE 0]]
    /\ input' = data
    /\ node' = 0
    /\ samples_run' = samples_run + 1
    /\ pc' = "running"
    /\ UNCHANGED <<nodes, fillers, op, target, result, topo_order, data>>

\* one iteration of for node in 0..num_nodes
NodeStep ==
    /\ pc = "running"
    /\ node < Len(topo_order)
    /\ \E o \in SampleNode(samples, input, node, intervention) :
          /\ hist' = IF ~o.parsed.ok THEN hist
                     ELSE [last |-> [k |-> node, before |-> samples,
                                     parents |-> o.parsed.parents,
                                     entries |-> o.parsed.entries,
                                     probability |-> o.parsed.probability],
                           probs |-> Append(hist.probs, o.parsed.probability),
                           reads |-> hist.reads
                                     \cup {[child |-> node,
                                            parent |-> o.parsed.parents[i],
                                            value |-> o.parsed.parent_states[i]]
                                           : i \in DOMAIN o.parsed.parents},
                           writes |-> IF o.ok /\ o.inserted
                                      THEN [hist.writes EXCEPT ![node + 1] = @ + 1]
                                      ELSE hist.writes]
          /\ IF o.ok
             THEN /\ samples' = o.samples
                  /\ input' = o.input
                  /\ node' = node + 1
                  /\ UNCHANGED <<pc, result>>
             ELSE /\ result' = [ok |-> FALSE, err |-> o.err]
                  /\ pc' = "failed"
                  /\ UNCHANGED <<samples, input, node>>
    /\ UNCHANGED <<nodes, fillers, op, target, samples_run, topo_order, data,
                   intervention>>

\* the loop has ended: Ok(samples)
Finish ==
    /\ pc = "running"
    /\ node = Len(topo_order)
    /\ result' = [ok |-> TRUE, samples |-> samples]
    /\ pc' = "done"
    /\ UNCHANGED <<nodes, fillers, op, target, samples_run, topo_order, data,
                   intervention, input, samples, node, hist>>

SampleNext == Encode \/ StartPass \/ NodeStep \/ Finish

SampleSpec == SampleInit /\ [][SampleNext]_vars

(***************************************************************************)
(* The network's invariants, stated on the node list.                      *)
(***************************************************************************)
\* the parents the nodes of this id mention
ParentsOf(ns, id) ==
    {p \in ListIds(Len(IdPool)) \cup {UnknownId} :
        \E i \in DOMAIN ns : \E j \in DOMAIN ns[i].cpt_entries :
            ns[i].id = id /\ p \in DOMAIN ns[i].cpt_entries[j].parent_states}

RECURSIVE ParentClosure(_, _)
ParentClosure(ns, S) ==
    LET T == S \cup UNION {ParentsOf(ns, x) : x \in S}
    IN IF T = S THEN S ELSE ParentClosure(ns, T)

\* the nodes with a directed parent path to id
Ancestors(ns, id) == ParentClosure(ns, ParentsOf(ns, id))

HasCycle(ns) == \E i \in DOMAIN ns : ns[i].id \in Ancestors(ns, ns[i].id)
HasDuplicate(ns) == \E i, j \in DOMAIN ns : i # j /\ ns[i].id = ns[j].id
HasUnknownParent(ns) ==
    \E i \in DOMAIN ns : \E p \in ParentsOf(ns, ns[i].id) :
        \A j \in DOMAIN ns : ns[j].id # p
TooMany == Len(nodes) + fillers > 255

ValidNetwork ==
    ~TooMany /\ ~HasDuplicate(nodes) /\ ~HasUnknownParent(nodes) /\ ~HasCycle(nodes)

\* the first check that fails, in the documented order ("" when none does)
FirstFailure ==
    IF TooMany THEN "TooManyNodes"
    ELSE IF HasDuplicate(nodes) THEN "DuplicateId"
    ELSE IF HasUnknownParent(nodes) THEN "UnknownParent"
    ELSE IF HasCycle(nodes) THEN "CycleDetected"
    ELSE ""

ParentsFirst(order, ns) ==
    \A i \in DOMAIN ns : \A p \in ParentsOf(ns, ns[i].id) :
        /\ Position(order, p) > 0
        /\ Position(order, p) < Position(order, ns[i].id)

(***************************************************************************)
(* C1: for a node list that passes the size, duplicate-id and              *)
(* unknown-parent checks, serialize_network fails with the cycle error     *)
(* exactly when the parent relation has a directed cycle (a self-parent    *)
(* included); otherwise topo_order holds every node id exactly once and    *)
(* every parent before each of its children.                               *)
(***************************************************************************)
C1_TopoOrderOrCycle ==
    (/\ op = "serialize_network"
     /\ ~TooMany /\ ~HasDuplicate(nodes) /\ ~HasUnknownParent(nodes))
    => /\ (~result.ok /\ result.err = "CycleDetected") <=> HasCycle(nodes)
       /\ ~HasCycle(nodes) =>
             /\ result.ok
             /\ Len(result.topo_order) = Len(nodes)
             /\ Range(result.topo_order) = NodeIds(nodes)
             /\ ParentsFirst(result.topo_order, nodes)

\* three nodes sorted, the first of the list a child of the last
C1_Witness ==
    /\ op = "serialize_network" /\ result.ok /\ fillers = 0
    /\ Len(nodes) = 3
    /\ nodes[3].id \in ParentsOf(nodes, nodes[1].id)
    /\ ParentsOf(nodes, nodes[3].id) # {}
    /\ result.topo_order[3] = nodes[1].id

(***************************************************************************)
(* C2: serialize_network reports the first failing check in the order node *)
(* count > 255 (255 passes, 256 fails), duplicate id, unknown parent,      *)
(* cycle; a list with a duplicate id and an unknown parent is rejected as  *)
(* a duplicate id.                                                         *)
(***************************************************************************)
C2_ValidationOrder ==
    op = "serialize_network" =>
       /\ result.ok <=> FirstFailure = ""
       /\ ~result.ok => result.err = FirstFailure
       /\ Len(nodes) + fillers = 256 => ~result.ok /\ result.err = "TooManyNodes"
       /\ Len(nodes) + fillers = 255 => (result.ok \/ result.err # "TooManyNodes")

\* 255 nodes, a duplicate id and an unknown parent: rejected as a duplicate
C2_Witness ==
    /\ op = "serialize_network"
    /\ Len(nodes) + fillers = 255
    /\ HasDuplicate(nodes) /\ HasUnknownParent(nodes)
    /\ ~result.ok /\ result.err = "DuplicateId"

(***************************************************************************)
(* C6: every query on a node list that violates a network invariant        *)
(* anywhere in the list (more than 255 nodes, a duplicate id, an unknown   *)
(* parent, a cycle) returns an error, and no sampling pass is run.         *)
(***************************************************************************)
C6_InvalidNetworkRejected ==
    (op \in {"compute_marginals", "compute_sensitivity"} /\ ~ValidNetwork)
    => ~result.ok /\ samples_run = 0

(***************************************************************************)
(* C8: for a valid network and a target in it, a successful                *)
(* compute_sensitivity returns a mapping whose keys are exactly the        *)
(* transitive ancestors of the target, the target excluded; a target       *)
(* without parents gets the empty mapping and no sampling pass.            *)
(***************************************************************************)
C8_SensitivityKeys ==
    (/\ op = "compute_sensitivity" /\ ValidNetwork
     /\ target \in NodeIds(nodes) /\ result.ok)
    => /\ DOMAIN result.sensitivities = Ancestors(nodes, target)
       /\ target \notin DOMAIN result.sensitivities
       /\ ParentsOf(nodes, target) = {} =>
             result.sensitivities = <<>> /\ samples_run = 0

\* a grandparent of the target that is not its parent is a key
C8_Witness ==
    /\ op = "compute_sensitivity" /\ ValidNetwork /\ result.ok
    /\ target \in NodeIds(nodes)
    /\ \E g \in DOMAIN result.sensitivities : g \notin ParentsOf(nodes, target)
    /\ samples_run > 0

(***************************************************************************)
(* C9: for a valid network and a target with an ancestor, the node list    *)
(* compute_sensitivity hands to serialize_network is exactly the ancestors *)
(* plus the target, closed under the parent relation, so serialization     *)
(* never fails on an unknown parent, and no other node is in the encoded   *)
(* buffer.                                                                 *)
(***************************************************************************)
C9_ClosedSubnetwork ==
    (/\ op = "compute_sensitivity" /\ ValidNetwork
     /\ target \in NodeIds(nodes) /\ Ancestors(nodes, target) # {})
    => LET kept == Ancestors(nodes, target) \cup {target}
       IN /\ NodeIds(result.serialized) = kept
          /\ Len(result.serialized) = Cardinality(kept)
          /\ \A i \in DOMAIN result.serialized :
                /\ \E j \in DOMAIN nodes : nodes[j] = result.serialized[i]
                /\ ParentsOf(nodes, result.serialized[i].id) \subseteq kept
          /\ ~HasUnknownParent(result.serialized)
          /\ ~result.ok => result.err \notin {"UnknownParent", "DuplicateId",
                                              "TooManyNodes", "CycleDetected"}
          /\ result.ok => Range(result.encoded) = kept

\* a node that is neither ancestor nor target is left out of the encoding
C9_Witness ==
    /\ op = "compute_sensitivity" /\ ValidNetwork /\ result.ok
    /\ target \in NodeIds(nodes)
    /\ Ancestors(nodes, target) # {}
    /\ Len(result.serialized) < Len(nodes)
    /\ NodeIds(nodes) \ Range(result.encoded) # {}

(***************************************************************************)
(* What a pass is meant to read, stated on the declared nodes.             *)
(***************************************************************************)
Started == pc \in {"running", "done", "failed"}
Processed == Started /\ Len(hist.probs) > 0

HasBit(set, v) == (set[(v \div 8) + 1] \div (2 ^ (v % 8))) % 2 = 1

IndexOf(id) == Position(topo_order, id) - 1

\* the declared node at topological index k
Declared(k) == CHOOSE n \in Range(nodes) : n.id = topo_order[k + 1]

\* every parent the entry maps to true or false has that state in set
Holds(e, set) ==
    \A p \in DOMAIN e.parent_states :
        /\ e.parent_states[p] = "true" => HasBit(set, IndexOf(p))
        /\ e.parent_states[p] = "false" => ~HasBit(set, IndexOf(p))

\* the position of the first declared entry that holds in set, 0 when none
FirstHolding(entries, set) ==
    IF \E j \in DOMAIN entries : Holds(entries[j], set)
    THEN CHOOSE j \in DOMAIN entries :
            /\ Holds(entries[j], set)
            /\ \A i \in 1..(j - 1) : ~Holds(entries[i], set)
    ELSE 0

Specific(e) == \E p \in DOMAIN e.parent_states : e.parent_states[p] \in {"true", "false"}

RECURSIVE Ascending(_)
Ascending(S) ==
    IF S = {} THEN <<>>
    ELSE LET least == CHOOSE x \in S : \A y \in S : x <= y
         IN <<least>> \o Ascending(S \ {least})

ExpectedParents(n) == Ascending({IndexOf(p) : p \in ParentsOf(nodes, n.id)})

DeclaredState(e, id) ==
    IF id \in DOMAIN e.parent_states THEN e.parent_states[id] ELSE "none"

\* the state the two bits of position i of a pattern byte stand for
DecodedState(byte, i) ==
    IF (byte \div (2 ^ (i + 4))) % 2 = 0 THEN "none"
    ELSE IF (byte \div (2 ^ i)) % 2 = 1 THEN "true" ELSE "false"

\* a parsed entry is the declared one: same probability, same state per parent
SameEntry(parsed, declared, parents) ==
    /\ parsed.probability = declared.probability
    /\ Len(parsed.parent_pattern) = (Len(parents) + 3) \div 4
    /\ \A pos \in DOMAIN parents :
          DecodedState(parsed.parent_pattern[((pos - 1) \div 4) + 1], (pos - 1) % 4)
          = DeclaredState(declared, topo_order[parents[pos] + 1])

EncodedSize(n) ==
    LET np == Cardinality(ParentsOf(nodes, n.id))
    IN 2 + np + Len(n.cpt_entries) * (((np + 3) \div 4) + 4)

RECURSIVE SizeUpTo(_)
SizeUpTo(k) == IF k = 0 THEN 0 ELSE SizeUpTo(k - 1) + EncodedSize(Declared(k - 1))

(***************************************************************************)
(* C3: the probability a pass uses for a node is that of the first CPT     *)
(* entry, in declared order, whose true/false parents all have that state  *)
(* in the current presence set (don't-care and unmentioned parents are     *)
(* unconstrained), also for patterns of several bytes; with no such entry  *)
(* the pass fails with the no-matching-entry error.                        *)
(***************************************************************************)
C3_FirstMatchingEntry ==
    Processed =>
       LET n == Declared(hist.last.k)
           j == FirstHolding(n.cpt_entries, hist.last.before)
       IN IF j = 0
          THEN /\ hist.last.probability = -1
               /\ pc = "failed" /\ result.err = "IncompleteCpt"
          ELSE /\ hist.last.probability = n.cpt_entries[j].probability
               /\ pc = "failed" => hist.last.k < node

\* a node of more than four parents, the last of them constrained, got its
\* first entry
C3_Witness ==
    /\ Processed /\ pc = "done"
    /\ Len(hist.last.parents) > 4
    /\ IdPool[5] \in DOMAIN Declared(hist.last.k).cpt_entries[1].parent_states
    /\ IdPool[1] \in DOMAIN Declared(hist.last.k).cpt_entries[1].parent_states
    /\ hist.last.probability = ProbAt(1)

(***************************************************************************)
(* C4: for a node with two CPT entries, a specific pattern and an          *)
(* all-wildcard default, a parent assignment that matches the specific     *)
(* pattern selects the specific entry's probability, never the default's,  *)
(* in both declaration orders.                                             *)
(***************************************************************************)
C4_Case ==
    /\ Processed
    /\ Len(Declared(hist.last.k).cpt_entries) = 2
    /\ \E s \in 1..2 :
          /\ Specific(Declared(hist.last.k).cpt_entries[s])
          /\ ~Specific(Declared(hist.last.k).cpt_entries[3 - s])
          /\ Holds(Declared(hist.last.k).cpt_entries[s], hist.last.before)

SpecificEntry ==
    LET es == Declared(hist.last.k).cpt_entries
    IN IF Specific(es[1]) THEN es[1] ELSE es[2]

DefaultEntry ==
    LET es == Declared(hist.last.k).cpt_entries
    IN IF Specific(es[1]) THEN es[2] ELSE es[1]

\* the claim as stated
C4_SpecificInBothOrders ==
    C4_Case => /\ hist.last.probability = SpecificEntry.probability
               /\ hist.last.probability # DefaultEntry.probability

\* C4 as amended: the entry declared first is selected, the specific one
\* only when it is declared before the default
C4_FirstDeclaredWins ==
    C4_Case =>
       LET es == Declared(hist.last.k).cpt_entries
       IN /\ hist.last.probability = es[1].probability
          /\ Specific(es[1]) => /\ hist.last.probability = SpecificEntry.probability
                                /\ hist.last.probability # DefaultEntry.probability
          /\ ~Specific(es[1]) => hist.last.probability = DefaultEntry.probability

\* specific first, default second, the specific pattern matched and selected
C4_Witness ==
    /\ C4_Case
    /\ Specific(Declared(hist.last.k).cpt_entries[1])
    /\ hist.last.parents # <<>>
    /\ hist.last.probability = SpecificEntry.probability
    /\ hist.last.probability # DefaultEntry.probability

(***************************************************************************)
(* C5: a completed pass with an intervention on node X returns a presence  *)
(* set that contains X exactly when the forced value is true, whatever X's *)
(* CPT, its parents' states and the draws.                                 *)
(***************************************************************************)
C5_InterventionFixesNode ==
    (pc = "done" /\ intervention.some)
    => (HasBit(result.samples, intervention.on_node) <=> intervention.value)

\* forced false although the node's CPT gave it probability 1.0
C5_Witness ==
    /\ pc = "done" /\ intervention.some /\ ~intervention.value
    /\ hist.probs[intervention.on_node + 1] = F32.one
    /\ ~HasBit(result.samples, intervention.on_node)

(***************************************************************************)
(* C7: a pass over the encoder's buffer reads for the k-th node the        *)
(* ascending topological indices of its parents and its CPT entries in     *)
(* declared order, consumes the node's bytes also when it is the           *)
(* intervention target, and leaves the buffer empty after the last node.   *)
(***************************************************************************)
C7_RoundTrip ==
    Started =>
       /\ Len(data) - Len(input) = SizeUpTo(node)
       /\ pc # "failed" => Len(hist.probs) = node
       /\ Processed =>
             LET n == Declared(hist.last.k)
             IN /\ hist.last.parents = ExpectedParents(n)
                /\ Len(hist.last.entries) = Len(n.cpt_entries)
                /\ \A j \in DOMAIN n.cpt_entries :
                      SameEntry(hist.last.entries[j], n.cpt_entries[j], hist.last.parents)
       /\ pc = "done" => input = <<>> /\ node = Len(nodes)
       /\ pc = "failed" => result.err = "IncompleteCpt"

\* the target has a parent and nodes after it, and the pass ends with the
\* buffer empty
C7_Witness ==
    /\ pc = "done" /\ input = <<>>
    /\ intervention.some
    /\ intervention.on_node + 1 < Len(topo_order)
    /\ ParentsOf(nodes, topo_order[intervention.on_node + 1]) # {}
    /\ Len(hist.last.parents) > 4

(***************************************************************************)
(* C10: when node k's CPT is matched, each parent of k has a smaller index *)
(* and its presence bit already has the value of the returned sample; a    *)
(* presence bit is written at most once and not after a child read it.     *)
(***************************************************************************)
C10_ParentsDecidedFirst ==
    Started =>
       /\ \A r \in hist.reads :
             /\ r.parent < r.child
             /\ HasBit(samples, r.parent) = r.value
             /\ pc = "done" => HasBit(result.samples, r.parent) = r.value
       /\ \A i \in DOMAIN hist.writes : hist.writes[i] <= 1

\* a child read the forced-true bit of its parent, written once before the scan
C10_Witness ==
    /\ pc = "done" /\ intervention.some /\ intervention.value
    /\ hist.writes[intervention.on_node + 1] = 1
    /\ \E r \in hist.reads : r.parent = intervention.on_node /\ r.value
    /\ \E r \in hist.reads : r.parent # intervention.on_node /\ r.value

====
